---- MODULE Spec2Model ----
(***************************************************************************)
(* Model of pykeg/FlowController.py: the FlowController thread (command    *)
(* writers serialized by a lock, background statusLoop reading status      *)
(* lines from the serial device), the StatusPacket decoder and the         *)
(* FlowSimulator stand-in.                                                 *)
(*                                                                         *)
(* Bytes are integers 0..255, strings are sequences of bytes.              *)
(***************************************************************************)
EXTENDS Integers, Sequences, FiniteSets, TLC

\* ------------------------------------------------------------------ bounds
NumCallers == 2     \* caller threads issuing commands concurrently
MaxEvents  == 3     \* things done to the controller from outside: command
                    \* calls begun after construction plus chunks of bytes
                    \* emitted by the device
MaxTime    == 1     \* clock ticks of time.time()

Callers == 1..NumCallers

\* ------------------------------------------------------- program constants
CMD_STATUS      == 129   \* '\x81'
CMD_VALVEON     == 131   \* '\x83'
CMD_VALVEOFF    == 132   \* '\x84'
CMD_PUSHTICKS   == 135   \* '\x87'
CMD_NOPUSHTICKS == 136   \* '\x88'
CMD_FRIDGEON    == 144   \* '\x90'
CMD_FRIDGEOFF   == 145   \* '\x91'
CMD_READTEMP    == 147   \* '\x93'

ChM     == 77    \* 'M'
ChColon == 58    \* ':'
ChK     == 75    \* 'K'
ChCR    == 13    \* '\r'
ChLF    == 10    \* '\n'

\* The command methods FlowController defines (each acquires the lock,
\* writes one opcode, releases the lock).
Commands ==
  {"openValve", "closeValve", "enableFridge", "updateTemp", "disableFridge",
   "getStatus"}

\* The valve opcodes exchanged.
CmdByte_ValveSwapped(op) ==
  CASE op = "openValve"     -> CMD_VALVEOFF
    [] op = "closeValve"    -> CMD_VALVEON
    [] op = "enableFridge"  -> CMD_FRIDGEON
    [] op = "updateTemp"    -> CMD_READTEMP
    [] op = "disableFridge" -> CMD_FRIDGEOFF
    [] op = "getStatus"     -> CMD_STATUS

\* The opcode each command method passes to _devpipe.write.
CmdByte(op) ==
  CASE op = "openValve"     -> CMD_VALVEON
    [] op = "closeValve"    -> CMD_VALVEOFF
    [] op = "enableFridge"  -> CMD_FRIDGEON
    [] op = "updateTemp"    -> CMD_READTEMP
    [] op = "disableFridge" -> CMD_FRIDGEOFF
    [] op = "getStatus"     -> CMD_STATUS

\* ------------------------------------------------------------ StatusPacket
\* pkt is the payload as a list of ints; Python index k is pkt[k+1] here.
\* StatusPacket.__init__ reads pkt[5] and pkt[6] first, pkt[1..4] after:
\* it raises IndexError unless the payload has at least 7 bytes.
PacketRaises(pkt) == Len(pkt) < 7

ConvertTemp_WideMask(msbyte, lsbyte) ==
  LET val == (msbyte % 16) * 256 + lsbyte
  IN  IF msbyte \div 8 # 0 THEN 0 - val ELSE val

\* _ConvertTemp, in sixteenths of a degree (val * 0.0625 is val/16).
ConvertTemp(msbyte, lsbyte) ==
  LET val == (msbyte % 8) * 256 + lsbyte
  IN  IF msbyte \div 8 # 0 THEN 0 - val ELSE val

StatusPacket(pkt) ==
  [temp   |-> ConvertTemp(pkt[6], pkt[7]),
   ticks  |-> pkt[4] * 256 + pkt[5],
   fridge |-> pkt[2],
   valve  |-> pkt[3]]

NoStatus == [none |-> TRUE]     \* self.status = None

\* ------------------------------------------------------------ str helpers
StartsWith(s, p) == Len(s) >= Len(p) /\ SubSeq(s, 1, Len(p)) = p
EndsWith(s, p)   == Len(s) >= Len(p) /\ SubSeq(s, Len(s) - Len(p) + 1, Len(s)) = p

\* line[2:-2]
Payload(l) == SubSeq(l, 3, Len(l) - 2)

\* Position of the first '\n' in s, 0 when there is none.
FirstLF(s) ==
  IF \E i \in 1..Len(s) : s[i] = ChLF
  THEN CHOOSE i \in 1..Len(s) : s[i] = ChLF /\ \A j \in 1..(i-1) : s[j] # ChLF
  ELSE 0

\* file.readline(): the bytes up to and including the first '\n'; at end of
\* stream whatever is left (the empty string when nothing is).
ReadLine(buf) == IF FirstLF(buf) = 0 THEN buf ELSE SubSeq(buf, 1, FirstLF(buf))
AfterLine(buf) ==
  IF FirstLF(buf) = 0 THEN <<>> ELSE SubSeq(buf, FirstLF(buf) + 1, Len(buf))

\* recvPacket without the trailer test.
RecvOutcome_NoTrailerTest(l) ==
  IF l = <<>> THEN "exit"
  ELSE IF ~StartsWith(l, <<ChM, ChColon>>) THEN
         (IF StartsWith(l, <<ChK>>) THEN "banner" ELSE "nostart")
  ELSE IF PacketRaises(Payload(l)) THEN "raise"
  ELSE "accept"

\* recvPacket taking 'K' for a start of packet as well.
RecvOutcome_BannerDecoded(l) ==
  IF l = <<>> THEN "exit"
  ELSE IF ~(StartsWith(l, <<ChM, ChColon>>) \/ StartsWith(l, <<ChK>>)) THEN "nostart"
  ELSE IF ~EndsWith(l, <<ChCR, ChLF>>) THEN "badtrailer"
  ELSE IF PacketRaises(Payload(l)) THEN "raise"
  ELSE "accept"

\* What one recvPacket call does with the line it read.
RecvOutcome(l) ==
  IF l = <<>> THEN "exit"                               \* sys.exit(1)
  ELSE IF ~StartsWith(l, <<ChM, ChColon>>) THEN
         (IF StartsWith(l, <<ChK>>) THEN "banner" ELSE "nostart")
  ELSE IF ~EndsWith(l, <<ChCR, ChLF>>) THEN "badtrailer"
  ELSE IF PacketRaises(Payload(l)) THEN "raise"         \* IndexError
  ELSE "accept"

\* A try/except placed inside the while loop: the loop survives a raise.
LoopAfter_ExceptInsideLoop(outcome) ==
  CASE outcome = "exit"   -> "dead"
    [] outcome = "accept" -> "addticks"
    [] OTHER              -> "while"

\* statusLoop: the try/except encloses the while loop, so anything raised
\* in an iteration (SystemExit included: the except is bare) ends the loop.
LoopAfter(outcome) ==
  CASE outcome \in {"exit", "raise"} -> "dead"
    [] outcome = "accept"            -> "addticks"
    [] OTHER                         -> "while"

\* --------------------------------------------------- what the device emits
Frame9      == <<ChM, ChColon, 1, 1, 0, 0, 3, ChCR, ChLF>>
Frame11     == <<ChM, ChColon, 1, 2, 1, 1, 3, 0, 16, ChCR, ChLF>>
FrameShort  == <<ChM, ChColon, 1, 1, ChCR, ChLF>>
FrameNoM    == <<88, ChColon, 1, 1, 0, 0, 3, ChCR, ChLF>>
FrameNoCR   == <<ChM, ChColon, 1, 1, 0, 0, 3, ChLF>>
FrameBanner == <<ChK, 66, ChCR, ChLF>>
FramePart   == <<ChM, ChColon, 1>>
FrameLFin   == <<ChM, ChColon, 1, 1, 0, 0, ChLF, ChCR, ChLF>>
FrameCRLFin == <<ChM, ChColon, 1, 1, 0, ChCR, ChLF, ChCR, ChLF>>

DeviceFrames ==
  {Frame9, Frame11, FrameShort, FrameNoM, FrameNoCR, FrameBanner, FramePart,
   FrameLFin, FrameCRLFin}

\* ------------------------------------------------------------------- state
VARIABLES
  QUIT,              \* self.QUIT (threading.Event)
  locked,            \* self._lock is held
  written,           \* bytes written to _devpipe, in order
  total_ticks,       \* self.total_ticks
  last_fridge_time,  \* self.last_fridge_time
  status,            \* self.status
  cpc,               \* per caller: position inside a command method
  cop,               \* per caller: the command method being executed
  ncalls,            \* command calls begun so far (the constructor's included)
  lpc,               \* position of the statusLoop thread
  line,              \* recvPacket's local: the line last read
  rx,                \* bytes the device has sent that were not read yet
  eof,               \* the device went away
  nsent,             \* chunks the device has emitted
  accepted,          \* tick fields of the lines recvPacket accepted, in order
  now,               \* time.time()
  nreads,            \* readTicks / fridgeStatus calls made so far
  ret,               \* what the last readTicks / fridgeStatus call gave its caller
  sim,               \* the FlowSimulator object: fridge, valve, ticks, open_time
  sim_now,           \* time.time() as the simulator sees it, in 1/100 s
  sim_last,          \* the simulator method called last
  sim_ret,           \* what the simulator's last readTicks / fridgeStatus returned
  tmsb,              \* _ConvertTemp: msbyte
  tlsb,              \* _ConvertTemp: lsbyte
  tval               \* _ConvertTemp: <<>>, or <<the value returned>> in 1/16 degree

vars ==
  <<QUIT, locked, written, total_ticks, last_fridge_time, status, cpc, cop,
    ncalls, lpc, line, rx, eof, nsent, accepted, now, nreads, ret, sim,
    sim_now, sim_last, sim_ret, tmsb, tlsb, tval>>

callerVars == <<QUIT, locked, written, last_fridge_time, cpc, cop, ncalls>>
loopVars   == <<total_ticks, status, lpc, line, accepted>>
devVars    == <<rx, eof, nsent>>
readVars   == <<nreads, ret>>
simVars    == <<sim, sim_now, sim_last, sim_ret>>
tempVars   == <<tmsb, tlsb, tval>>
ctrlVars   == <<callerVars, loopVars, devVars, now, readVars>>

\* No readTicks / fridgeStatus call has been made.
NoReturn == [op |-> "none", err |-> FALSE, val |-> 0]

\* After FlowSimulator.__init__; its clock stands at some time after the
\* epoch.
SimInit ==
  /\ sim = [fridge |-> 0, valve |-> 0, ticks |-> 0, open_time |-> 0]
  /\ sim_now = 1
  /\ sim_last = "init"
  /\ sim_ret = 0

\* _ConvertTemp has not been called.
TempIdle == tmsb = 0 /\ tlsb = 0 /\ tval = <<>>

\* After FlowController.__init__: disableFridge() has written its opcode,
\* status is None, total_ticks and last_fridge_time are 0; the thread has
\* not been started.
CtrlInit ==
  /\ QUIT = FALSE
  /\ locked = FALSE
  /\ written = <<CMD_FRIDGEOFF>>
  /\ total_ticks = 0
  /\ last_fridge_time = 0
  /\ status = NoStatus
  /\ cpc = [t \in Callers |-> "idle"]
  /\ cop = [t \in Callers |-> "none"]
  /\ ncalls = 1
  /\ lpc = "new"
  /\ line = <<>>
  /\ rx = <<>>
  /\ eof = FALSE
  /\ nsent = 0
  /\ accepted = <<>>
  /\ now = 1
  /\ nreads = 0
  /\ ret = NoReturn

Init == CtrlInit /\ SimInit /\ TempIdle

\* ---------------------------------------------------------- command calls
\* The outside world may still do something to the controller.
EventsLeft == (ncalls - 1) + nsent + nreads < MaxEvents

\* enableFridge with the test of lines 138-140 restored: a request less
\* than 300 s after the previous one returns at once.
Call_Cooldown(t, op) ==
  /\ cpc[t] = "idle"
  /\ EventsLeft
  /\ ncalls' = ncalls + 1
  /\ IF op = "enableFridge" /\ now - last_fridge_time < 300
        THEN UNCHANGED <<cpc, cop, last_fridge_time>>
        ELSE /\ cpc' = [cpc EXCEPT ![t] = "acquire"]
             /\ cop' = [cop EXCEPT ![t] = op]
             /\ last_fridge_time' =
                  IF op = "enableFridge" THEN now ELSE last_fridge_time
  /\ UNCHANGED <<QUIT, locked, written>>
  /\ UNCHANGED <<loopVars, devVars, now>>
  /\ UNCHANGED <<readVars, simVars, tempVars>>

\* A caller enters one of the command methods.  enableFridge first records
\* time.time(); the others go straight to _lock.acquire().
Call(t, op) ==
  /\ cpc[t] = "idle"
  /\ EventsLeft
  /\ cpc' = [cpc EXCEPT ![t] = "acquire"]
  /\ cop' = [cop EXCEPT ![t] = op]
  /\ ncalls' = ncalls + 1
  /\ last_fridge_time' = IF op = "enableFridge" THEN now ELSE last_fridge_time
  /\ UNCHANGED <<QUIT, locked, written>>
  /\ UNCHANGED <<loopVars, devVars, now>>
  /\ UNCHANGED <<readVars, simVars, tempVars>>

\* stop(): QUIT.set(), then getStatus().
Stop(t) ==
  /\ cpc[t] = "idle"
  /\ EventsLeft
  /\ QUIT' = TRUE
  /\ cpc' = [cpc EXCEPT ![t] = "acquire"]
  /\ cop' = [cop EXCEPT ![t] = "getStatus"]
  /\ ncalls' = ncalls + 1
  /\ UNCHANGED <<locked, written, last_fridge_time>>
  /\ UNCHANGED <<loopVars, devVars, now>>
  /\ UNCHANGED <<readVars, simVars, tempVars>>

\* An acquire that does not wait for the holder.
LockFree_NoWait == TRUE

\* self._lock.acquire(): blocks while the lock is held.
LockFree == ~locked

Acquire(t) ==
  /\ cpc[t] = "acquire"
  /\ LockFree
  /\ locked' = TRUE
  /\ cpc' = [cpc EXCEPT ![t] = "write"]
  /\ UNCHANGED <<QUIT, written, last_fridge_time, cop, ncalls>>
  /\ UNCHANGED <<loopVars, devVars, now>>
  /\ UNCHANGED <<readVars, simVars, tempVars>>

\* A write that waits for the device's answer and takes a byte of it.
Write_ReadsReply(t) ==
  /\ cpc[t] = "write"
  /\ written' = Append(written, CmdByte(cop[t]))
  /\ cpc' = [cpc EXCEPT ![t] = "release"]
  /\ rx' = IF rx = <<>> THEN rx ELSE Tail(rx)
  /\ UNCHANGED <<QUIT, locked, last_fridge_time, cop, ncalls>>
  /\ UNCHANGED <<loopVars, eof, nsent, now>>
  /\ UNCHANGED <<readVars, simVars, tempVars>>

\* self._devpipe.write(self.CMD_...): the write call completes.
Write(t) ==
  /\ cpc[t] = "write"
  /\ written' = Append(written, CmdByte(cop[t]))
  /\ cpc' = [cpc EXCEPT ![t] = "release"]
  /\ UNCHANGED <<QUIT, locked, last_fridge_time, cop, ncalls>>
  /\ UNCHANGED <<loopVars, devVars, now>>
  /\ UNCHANGED <<readVars, simVars, tempVars>>

\* self._lock.release(), and the method returns.
Release(t) ==
  /\ cpc[t] = "release"
  /\ locked' = FALSE
  /\ cpc' = [cpc EXCEPT ![t] = "idle"]
  /\ cop' = [cop EXCEPT ![t] = "none"]
  /\ UNCHANGED <<QUIT, written, last_fridge_time, ncalls>>
  /\ UNCHANGED <<loopVars, devVars, now>>
  /\ UNCHANGED <<readVars, simVars, tempVars>>

\* -------------------------------------------------------------- statusLoop
\* start(): run() calls statusLoop().
Start ==
  /\ lpc = "new"
  /\ lpc' = "while"
  /\ UNCHANGED <<total_ticks, status, line, accepted>>
  /\ UNCHANGED <<callerVars, devVars, now>>
  /\ UNCHANGED <<readVars, simVars, tempVars>>

\* A loop that goes round again whatever the flag says.
WhileTest_IgnoresQuit ==
  /\ lpc = "while"
  /\ lpc' = "select"
  /\ UNCHANGED <<total_ticks, status, line, accepted>>
  /\ UNCHANGED <<callerVars, devVars, now>>
  /\ UNCHANGED <<readVars, simVars, tempVars>>

\* while not self.QUIT.isSet()
WhileTest ==
  /\ lpc = "while"
  /\ lpc' = IF QUIT THEN "done" ELSE "select"
  /\ UNCHANGED <<total_ticks, status, line, accepted>>
  /\ UNCHANGED <<callerVars, devVars, now>>
  /\ UNCHANGED <<readVars, simVars, tempVars>>

\* select reports the pipe readable when bytes are pending or at end of
\* stream.
Readable == rx # <<>> \/ eof

\* select.select([self._devpipe],[],[],1.0) returns the pipe: recvPacket.
SelectReady ==
  /\ lpc = "select"
  /\ Readable
  /\ lpc' = "recv"
  /\ UNCHANGED <<total_ticks, status, line, accepted>>
  /\ UNCHANGED <<callerVars, devVars, now>>
  /\ UNCHANGED <<readVars, simVars, tempVars>>

\* select times out after 1.0 s with nothing to read.
SelectTimeout ==
  /\ lpc = "select"
  /\ ~Readable
  /\ lpc' = "while"
  /\ UNCHANGED <<total_ticks, status, line, accepted>>
  /\ UNCHANGED <<callerVars, devVars, now>>
  /\ UNCHANGED <<readVars, simVars, tempVars>>

\* recvPacket up to and including the assignment of self.status: readline
\* blocks until a whole line (or the end of the stream) is there.
RecvPacket ==
  /\ lpc = "recv"
  /\ FirstLF(rx) # 0 \/ eof
  /\ LET l   == ReadLine(rx)
         out == RecvOutcome(l)
     IN  /\ line' = l
         /\ rx' = AfterLine(rx)
         /\ lpc' = LoopAfter(out)
         /\ status' = IF out = "accept" THEN StatusPacket(Payload(l)) ELSE status
         /\ accepted' = IF out = "accept"
                        THEN Append(accepted, l[6] * 256 + l[7])
                        ELSE accepted
  /\ UNCHANGED <<total_ticks, eof, nsent>>
  /\ UNCHANGED <<callerVars, now>>
  /\ UNCHANGED <<readVars, simVars, tempVars>>

\* The update written as a plain assignment.
AddTicks_Assign ==
  /\ lpc = "addticks"
  /\ total_ticks' = status.ticks
  /\ lpc' = "while"
  /\ UNCHANGED <<status, line, accepted>>
  /\ UNCHANGED <<callerVars, devVars, now>>
  /\ UNCHANGED <<readVars, simVars, tempVars>>

AddTicks_Subtract ==
  /\ lpc = "addticks"
  /\ total_ticks' = total_ticks - status.ticks
  /\ lpc' = "while"
  /\ UNCHANGED <<status, line, accepted>>
  /\ UNCHANGED <<callerVars, devVars, now>>
  /\ UNCHANGED <<readVars, simVars, tempVars>>

\* self.total_ticks += self.status.ticks, and recvPacket returns.
AddTicks ==
  /\ lpc = "addticks"
  /\ total_ticks' = total_ticks + status.ticks
  /\ lpc' = "while"
  /\ UNCHANGED <<status, line, accepted>>
  /\ UNCHANGED <<callerVars, devVars, now>>
  /\ UNCHANGED <<readVars, simVars, tempVars>>

\* ------------------------------------------------------------- environment
\* The board sends some bytes.
DeviceSend(f) ==
  /\ ~eof
  /\ EventsLeft
  /\ rx' = rx \o f
  /\ nsent' = nsent + 1
  /\ UNCHANGED eof
  /\ UNCHANGED <<callerVars, loopVars, now>>
  /\ UNCHANGED <<readVars, simVars, tempVars>>

\* The device goes away: reads reach the end of the stream.
DeviceGone ==
  /\ ~eof
  /\ eof' = TRUE
  /\ UNCHANGED <<rx, nsent>>
  /\ UNCHANGED <<callerVars, loopVars, now>>
  /\ UNCHANGED <<readVars, simVars, tempVars>>

\* Time passes.
ClockTick ==
  /\ now <= MaxTime
  /\ now' = now + 1
  /\ UNCHANGED <<callerVars, loopVars, devVars>>
  /\ UNCHANGED <<readVars, simVars, tempVars>>

CallerStep(t) == Acquire(t) \/ Write(t) \/ Release(t)

LoopStep ==
  Start \/ WhileTest \/ SelectReady \/ SelectTimeout \/ RecvPacket \/ AddTicks

Next ==
  \/ \E t \in Callers : \E op \in Commands : Call(t, op)
  \/ \E t \in Callers : Stop(t)
  \/ \E t \in Callers : Acquire(t)
  \/ \E t \in Callers : Write(t)
  \/ \E t \in Callers : Release(t)
  \/ Start
  \/ WhileTest
  \/ SelectReady
  \/ SelectTimeout
  \/ RecvPacket
  \/ AddTicks
  \/ \E f \in DeviceFrames : DeviceSend(f)
  \/ DeviceGone

Spec == Init /\ [][Next]_vars

\* The callers and the loop observed while the clock advances and the
\* device stays silent: nothing the device sends reaches the clock, the
\* lock or last_fridge_time.  No guard of the program reads the clock (the
\* cooldown test of enableFridge is commented out), so Spec leaves the
\* clock alone.
TimedNext ==
  \/ \E t \in Callers : \E op \in Commands : Call(t, op)
  \/ \E t \in Callers : Stop(t)
  \/ \E t \in Callers : Acquire(t)
  \/ \E t \in Callers : Write(t)
  \/ \E t \in Callers : Release(t)
  \/ Start
  \/ WhileTest
  \/ SelectTimeout
  \/ ClockTick

TimedSpec == Init /\ [][TimedNext]_vars

\* The threads are scheduled: a call in progress and the loop keep taking
\* the steps they can take.  The device and new calls are under no
\* obligation.
FairSpec ==
  /\ Spec
  /\ WF_vars(LoopStep)
  /\ \A t \in Callers : WF_vars(CallerStep(t))

\* ----------------------------------------------------------- FlowSimulator
\* The simulator keeps no thread and no link: every method runs to its end
\* in the caller.  Its clock is time.time() in hundredths of a second; the
\* wall clock can be set back as well as run on.
SimMaxTime == 4

Max(a, b) == IF a >= b THEN a ELSE b

\* Python's int() of the quotient n / d: truncation toward zero.
int(n, d) == IF n >= 0 THEN n \div d ELSE 0 - ((0 - n) \div d)

SimTicks_NoClamp(t, open_time) == int(50 * (t - open_time), 100)

\* FlowSimulator.readTicks: max(0, int(50*(time.time() - self.open_time))).
SimTicks(t, open_time) == Max(0, int(50 * (t - open_time), 100))

SimStart ==
  /\ sim_last' = "start"
  /\ UNCHANGED <<sim, sim_now, sim_ret, ctrlVars, tempVars>>

SimStop ==
  /\ sim_last' = "stop"
  /\ UNCHANGED <<sim, sim_now, sim_ret, ctrlVars, tempVars>>

SimFridgeStatus ==
  /\ sim_ret' = sim.fridge
  /\ sim_last' = "fridgeStatus"
  /\ UNCHANGED <<sim, sim_now, ctrlVars, tempVars>>

SimReadTicks ==
  /\ sim_ret' = SimTicks(sim_now, sim.open_time)
  /\ sim_last' = "readTicks"
  /\ UNCHANGED <<sim, sim_now, ctrlVars, tempVars>>

SimOpenValve ==
  /\ sim' = [sim EXCEPT !.valve = 1, !.open_time = sim_now]
  /\ sim_last' = "openValve"
  /\ UNCHANGED <<sim_now, sim_ret, ctrlVars, tempVars>>

SimCloseValve ==
  /\ sim' = [sim EXCEPT !.valve = 0]
  /\ sim_last' = "closeValve"
  /\ UNCHANGED <<sim_now, sim_ret, ctrlVars, tempVars>>

SimEnableFridge ==
  /\ sim' = [sim EXCEPT !.fridge = 1]
  /\ sim_last' = "enableFridge"
  /\ UNCHANGED <<sim_now, sim_ret, ctrlVars, tempVars>>

SimDisableFridge ==
  /\ sim' = [sim EXCEPT !.fridge = 0]
  /\ sim_last' = "disableFridge"
  /\ UNCHANGED <<sim_now, sim_ret, ctrlVars, tempVars>>

SimClockTick ==
  /\ sim_now <= SimMaxTime
  /\ sim_now' = sim_now + 1
  /\ sim_last' = "clock"
  /\ UNCHANGED <<sim, sim_ret, ctrlVars, tempVars>>

SimClockBack ==
  /\ sim_now > 0
  /\ sim_now' = sim_now - 1
  /\ sim_last' = "clock"
  /\ UNCHANGED <<sim, sim_ret, ctrlVars, tempVars>>

SimNext ==
  \/ SimStart
  \/ SimStop
  \/ SimFridgeStatus
  \/ SimReadTicks
  \/ SimOpenValve
  \/ SimCloseValve
  \/ SimEnableFridge
  \/ SimDisableFridge
  \/ SimClockTick
  \/ SimClockBack

SimSpec == Init /\ [][SimNext]_vars

\* ------------------------------------------------------------ _ConvertTemp
\* The decoder applied to any two bytes: Init draws the arguments, the one
\* step is the call.
Bytes == 0..255

TempInit ==
  /\ CtrlInit
  /\ SimInit
  /\ tmsb \in Bytes
  /\ tlsb \in Bytes
  /\ tval = <<>>

TempCall ==
  /\ tval = <<>>
  /\ tval' = <<ConvertTemp(tmsb, tlsb)>>
  /\ UNCHANGED <<tmsb, tlsb, ctrlVars, simVars>>

TempNext == TempCall

TempSpec == TempInit /\ [][TempNext]_vars

\* ------------------------------------------------- readTicks, fridgeStatus
\* The two read accessors take no lock: each is one attribute read in the
\* caller's thread, at whatever point the loop has reached.

\* return self.total_ticks
ReadTicks ==
  /\ EventsLeft
  /\ nreads' = nreads + 1
  /\ ret' = [op |-> "readTicks", err |-> FALSE, val |-> total_ticks]
  /\ UNCHANGED <<callerVars, loopVars, devVars, now, simVars, tempVars>>

FridgeStatus_ReturnsValve ==
  /\ EventsLeft
  /\ nreads' = nreads + 1
  /\ ret' = IF status = NoStatus
              THEN [op |-> "fridgeStatus", err |-> TRUE, val |-> 0]
              ELSE [op |-> "fridgeStatus", err |-> FALSE, val |-> status.valve]
  /\ UNCHANGED <<callerVars, loopVars, devVars, now, simVars, tempVars>>

\* return self.status.fridge: AttributeError while self.status is None.
FridgeStatus ==
  /\ EventsLeft
  /\ nreads' = nreads + 1
  /\ ret' = IF status = NoStatus
              THEN [op |-> "fridgeStatus", err |-> TRUE, val |-> 0]
              ELSE [op |-> "fridgeStatus", err |-> FALSE, val |-> status.fridge]
  /\ UNCHANGED <<callerVars, loopVars, devVars, now, simVars, tempVars>>

\* The loop, the device and stop(), with callers reading the decoded state.
ReadNext ==
  \/ ReadTicks
  \/ FridgeStatus
  \/ \E t \in Callers : Stop(t)
  \/ \E t \in Callers : Acquire(t)
  \/ \E t \in Callers : Write(t)
  \/ \E t \in Callers : Release(t)
  \/ Start
  \/ WhileTest
  \/ SelectReady
  \/ SelectTimeout
  \/ RecvPacket
  \/ AddTicks
  \/ \E f \in DeviceFrames : DeviceSend(f)
  \/ DeviceGone

ReadSpec == Init /\ [][ReadNext]_vars

\* ---------------------------------------------------------- a failing link
\* self._devpipe.write raises (the device is gone, the descriptor is bad):
\* the exception leaves the command method from the write statement, so
\* the release statement after it is not reached and nothing is written.
WriteRaise(t) ==
  /\ cpc[t] = "write"
  /\ cpc' = [cpc EXCEPT ![t] = "idle"]
  /\ cop' = [cop EXCEPT ![t] = "none"]
  /\ UNCHANGED <<QUIT, locked, written, last_fridge_time, ncalls>>
  /\ UNCHANGED <<loopVars, devVars, now>>
  /\ UNCHANGED <<readVars, simVars, tempVars>>

\* The callers and the loop on a link whose writes may fail; the device
\* sends nothing.
FaultNext ==
  \/ \E t \in Callers : \E op \in Commands : Call(t, op)
  \/ \E t \in Callers : Stop(t)
  \/ \E t \in Callers : Acquire(t)
  \/ \E t \in Callers : Write(t)
  \/ \E t \in Callers : WriteRaise(t)
  \/ \E t \in Callers : Release(t)
  \/ Start
  \/ WhileTest
  \/ SelectTimeout

FaultSpec == Init /\ [][FaultNext]_vars

\* ================================================================ claims
RECURSIVE Sum(_)
Sum(s) == IF s = <<>> THEN 0 ELSE s[1] + Sum(Tail(s))

\* The statusLoop thread has just returned from readline (line' is the
\* line it read).
RecvStep == lpc = "recv" /\ lpc' # "recv"

BeginsMColon(l) == Len(l) >= 2 /\ l[1] = 77 /\ l[2] = 58
EndsCRLF(l)     == Len(l) >= 2 /\ l[Len(l) - 1] = 13 /\ l[Len(l)] = 10

\* ---------------------------------------------------------------------- C1
\* C1: under any interleaving of concurrent command calls the link has
\* received exactly one byte per call whose write has completed (so N bytes
\* once N calls have returned), at most one write call is in progress at any
\* time, and a write in progress holds the lock.
C1_SerializedWrites ==
  LET writing == {t \in Callers : cpc[t] = "write"}
      before  == {t \in Callers : cpc[t] \in {"acquire", "write"}}
  IN  /\ Cardinality(writing) <= 1
      /\ writing # {} => locked
      /\ Len(written) = ncalls - Cardinality(before)

\* Two calls contend: one is writing while the other waits for the lock.
C1_Witness ==
  \E t, u \in Callers :
    t # u /\ cpc[t] = "write" /\ cpc[u] = "acquire" /\ locked

\* ---------------------------------------------------------------------- C2
\* C2: after stop() on a running controller the receive loop eventually
\* terminates, whatever it was doing (polling, or woken and reading).
C2_StopTerminatesLoop ==
  (QUIT /\ lpc # "new") ~> (lpc \in {"done", "dead"})

\* ---------------------------------------------------------------------- C3
\* C3: a well-formed 9-byte frame ('M', ':', 5 payload bytes, CR, LF) read
\* by the receive loop is accepted: status holds fridge = payload byte 1,
\* valve = payload byte 2, ticks = payload byte 3 * 256 + payload byte 4,
\* and the loop has not ended on an error.
C3_Frame9Accepted ==
  (Len(line) = 9 /\ BeginsMColon(line) /\ EndsCRLF(line)) =>
    /\ lpc # "dead"
    /\ status # NoStatus
    /\ status.fridge = line[4]
    /\ status.valve = line[5]
    /\ status.ticks = line[6] * 256 + line[7]

\* ---------------------------------------------------------------------- C4
\* C4: total_ticks is the sum of the tick fields (payload byte 3 * 256 +
\* payload byte 4) of the frames accepted so far, starting from 0; while
\* the loop stands between storing a packet and adding its ticks, of all
\* but that last one.
C4_TickAccumulation ==
  total_ticks =
    Sum(IF lpc = "addticks" THEN SubSeq(accepted, 1, Len(accepted) - 1)
        ELSE accepted)

\* Two frames have been accepted and added, with command calls around them.
C4_Witness ==
  Len(accepted) = 2 /\ lpc = "while" /\ total_ticks > accepted[2] /\ ncalls > 1

\* ---------------------------------------------------------------------- C5
\* C5: a non-empty line that does not begin with 'M:' or does not end with
\* CR LF is rejected without raising: total_ticks and status are unchanged
\* and the loop goes on to its next iteration.
C5_BadBoundaryRejected ==
  [][(RecvStep /\ line' # <<>> /\ (~BeginsMColon(line') \/ ~EndsCRLF(line')))
       => (lpc' = "while" /\ UNCHANGED <<total_ticks, status>>)]_vars

\* A line with the marker but without CR LF has been read and dropped.
C5_Witness ==
  lpc = "while" /\ BeginsMColon(line) /\ ~EndsCRLF(line)

\* ---------------------------------------------------------------------- C6
\* C6: a line with the 'M:' marker and the CR LF terminator whose payload
\* is not 5 bytes long is rejected without raising: total_ticks and status
\* are unchanged and the loop goes on to its next iteration.
C6_WrongLengthRejected ==
  [][(RecvStep /\ BeginsMColon(line') /\ EndsCRLF(line') /\ Len(line') # 9)
       => (lpc' = "while" /\ UNCHANGED <<total_ticks, status>>)]_vars

\* ---------------------------------------------------------------------- C7
\* C7: a line beginning with 'K' never raises and never changes total_ticks
\* or status; the loop goes on to its next iteration.
C7_BannerIgnored ==
  [][(RecvStep /\ Len(line') >= 1 /\ line'[1] = 75)
       => (lpc' = "while" /\ UNCHANGED <<total_ticks, status>>)]_vars

\* A banner has been read and the loop is back at its head.
C7_Witness ==
  lpc = "while" /\ Len(line) >= 1 /\ line[1] = 75

\* ---------------------------------------------------------------------- C8
\* C8: once the receive loop has read end-of-stream the process is gone: no
\* command caller runs on (the lock is not taken or released any more and
\* nothing more is written to the link).
C8_EofEndsProcess ==
  [][(lpc = "dead" /\ line = <<>>) => UNCHANGED <<locked, written>>]_vars

\* ---------------------------------------------------------------------- C9
\* C9: an exception raised in a receive iteration ends the loop; an ended
\* loop stays ended and total_ticks and status never change again; a
\* command call running after that still writes its own byte and returns,
\* and no call can be left waiting: the lock is held only by a call that is
\* about to write or to release it.
C9_Safety ==
  /\ (RecvStep /\ BeginsMColon(line') /\ EndsCRLF(line') /\ Len(line') < 11)
       => lpc' = "dead"
  /\ lpc = "dead" => (lpc' = "dead" /\ UNCHANGED <<total_ticks, status>>)
  /\ \A t \in Callers :
       (lpc = "dead" /\ cpc[t] = "write" /\ cpc'[t] # "write")
         => (written' = Append(written, CmdByte(cop[t])) /\ cpc'[t] = "release")
  /\ \A t \in Callers :
       (lpc = "dead" /\ cpc[t] = "release" /\ cpc'[t] # "release")
         => (cpc'[t] = "idle" /\ written' = written)

C9_ReadErrorContained ==
  /\ [][C9_Safety]_vars
  /\ [](lpc = "dead" =>
          (locked <=> \E t \in Callers : cpc[t] \in {"write", "release"}))

\* The loop died on an IndexError and a command has since been written.
C9_Witness ==
  /\ lpc = "dead"
  /\ BeginsMColon(line) /\ EndsCRLF(line)
  /\ \E t \in Callers : cpc[t] = "release"

\* --------------------------------------------------------------------- C10
\* The operations and opcodes the specification names.
SpecOpcode ==
  [openValve |-> 131, closeValve |-> 132, enableFridge |-> 144,
   disableFridge |-> 145, getStatus |-> 129, updateTemp |-> 147,
   pushTicks |-> 135, noPushTicks |-> 136]

SixOperations ==
  {"openValve", "closeValve", "enableFridge", "disableFridge", "getStatus",
   "updateTemp"}

\* C10 as stated: all eight operations exist on the controller, each with
\* its own opcode, and only those opcodes reach the link.
C10_EightOperations ==
  /\ \A o \in DOMAIN SpecOpcode : o \in Commands /\ CmdByte(o) = SpecOpcode[o]
  /\ \A i \in DOMAIN written : \E o \in DOMAIN SpecOpcode : written[i] = SpecOpcode[o]

\* C10 (amended): the controller has the six operations open valve, close
\* valve, enable fridge, disable fridge, request status, request
\* temperature and no tick-priority operation; whenever the link grows it
\* grows by exactly one byte, the opcode of the operation being executed;
\* 0x87 and 0x88 are never written.
C10_GrowsByOwnOpcode ==
  written' # written =>
    \E t \in Callers :
      /\ cpc[t] = "write" /\ cpc'[t] = "release"
      /\ cop[t] \in SixOperations
      /\ written' = Append(written, SpecOpcode[cop[t]])

C10_SixOperations ==
  /\ [](/\ Commands = SixOperations
        /\ \A i \in DOMAIN written : written[i] \notin {135, 136})
  /\ [][C10_GrowsByOwnOpcode]_vars

\* openValve has been called and its byte is on the link.
C10_Witness ==
  \E i \in DOMAIN written : i > 1 /\ written[i] = 131

\* --------------------------------------------------------------------- C11
\* C11: the simulator's fridge and valve flags start at 0 and, at every
\* step, are 1 after enableFridge / openValve, 0 after disableFridge /
\* closeValve and untouched by every other method; open_time is the clock
\* value of the last openValve; fridgeStatus returns the fridge flag and
\* readTicks returns max(0, floor(50 * (now - open_time))), the clock
\* counted in hundredths of a second.
C11_Step ==
  /\ sim_last' = "enableFridge" => sim'.fridge = 1
  /\ sim_last' = "disableFridge" => sim'.fridge = 0
  /\ sim_last' \notin {"enableFridge", "disableFridge"}
       => sim'.fridge = sim.fridge
  /\ sim_last' = "openValve" => sim'.valve = 1 /\ sim'.open_time = sim_now
  /\ sim_last' = "closeValve" => sim'.valve = 0
  /\ sim_last' \notin {"openValve", "closeValve"} => sim'.valve = sim.valve
  /\ sim_last' # "openValve" => sim'.open_time = sim.open_time
  /\ sim_last' = "fridgeStatus" => sim_ret' = sim.fridge
  /\ sim_last' = "readTicks"
       => sim_ret' = Max(0, (50 * (sim_now - sim.open_time)) \div 100)

C11_SimulatorFollowsCommands ==
  /\ sim.fridge = 0 /\ sim.valve = 0
  /\ [][C11_Step]_vars

\* readTicks has just returned a positive count for a valve opened after
\* the simulator was built.
C11_Witness ==
  /\ sim_last = "readTicks"
  /\ sim.valve = 1
  /\ sim.open_time > 0
  /\ sim_ret > 0

\* --------------------------------------------------------------------- C12
\* Bit k of a byte, and the two fields of the sign byte.
Bit(b, k) == (b \div 2^k) % 2
Low3(b) == Bit(b, 0) + 2 * Bit(b, 1) + 4 * Bit(b, 2)
Upper5NonZero(b) == \E k \in 3..7 : Bit(b, k) = 1
Magnitude == Low3(tmsb) * 256 + tlsb

\* C12 as stated: the decoded value has magnitude (msbyte & 0x07)*256 +
\* lsbyte sixteenths and is negative exactly when the upper 5 bits of
\* msbyte are nonzero; (0x00, 0x10) decodes to +1.0.
C12_NegativeIffSignBits ==
  tval # <<>> =>
    /\ tval[1] \in {Magnitude, 0 - Magnitude}
    /\ tval[1] < 0 <=> Upper5NonZero(tmsb)
    /\ (tmsb = 0 /\ tlsb = 16) => tval[1] = 16

\* C12: the decoded value is the magnitude (msbyte & 0x07)*256 + lsbyte
\* sixteenths, negated exactly when the upper 5 bits of msbyte are nonzero;
\* so it is negative exactly when those bits are nonzero and the magnitude
\* is not zero; (0x00, 0x10) decodes to +1.0.
C12_NegatedIffSignBits ==
  tval # <<>> =>
    /\ tval[1] = IF Upper5NonZero(tmsb) THEN 0 - Magnitude ELSE Magnitude
    /\ tval[1] < 0 <=> (Upper5NonZero(tmsb) /\ Magnitude # 0)
    /\ (tmsb = 0 /\ tlsb = 16) => tval[1] = 16

\* A reading below zero has been decoded.
C12_Witness == tval # <<>> /\ tval[1] < 0 /\ Upper5NonZero(tmsb)

\* --------------------------------------------------------------------- C13
\* C13: there is no cooldown on fridge activation.  Every call made moves
\* its caller to the lock, an enableFridge call among them whatever the
\* time since the previous one, and stamps last_fridge_time with the
\* current time; a caller leaves the lock wait only for the write, and the
\* write of an enableFridge call appends FRIDGE_ON.
C13_Step ==
  /\ ncalls' = ncalls + 1 =>
       \E t \in Callers :
         /\ cpc[t] = "idle" /\ cpc'[t] = "acquire"
         /\ cop'[t] = "enableFridge" => last_fridge_time' = now
  /\ \A t \in Callers :
       /\ (cpc[t] = "acquire" /\ cpc'[t] # "acquire") =>
            cpc'[t] = "write" /\ cop'[t] = cop[t]
       /\ (cpc[t] = "write" /\ cpc'[t] # "write" /\ cop[t] = "enableFridge")
            => written' = Append(written, CMD_FRIDGEON)

C13_NoCooldown == [][C13_Step]_vars

\* Two enableFridge calls have written FRIDGE_ON before the clock moved at
\* all.
C13_Witness ==
  /\ written = <<CMD_FRIDGEOFF, CMD_FRIDGEON, CMD_FRIDGEON>>
  /\ last_fridge_time = now
  /\ now = 1

\* --------------------------------------------------------------------- C14
\* C14: total_ticks is never negative and no step decreases it.
C14_TicksMonotonic ==
  /\ [](total_ticks >= 0)
  /\ [][total_ticks' >= total_ticks]_vars

\* The counter has grown twice and the loop has then been stopped.
C14_Witness ==
  Len(accepted) = 2 /\ total_ticks = accepted[1] + accepted[2] /\ lpc = "done"

\* --------------------------------------------------------------------- C15
\* C15: command calls are fire-and-forget.  No step of a command call
\* (entering it, taking the lock, writing, releasing) takes bytes from the
\* link or changes total_ticks or status; total_ticks and status change
\* only in steps of the receive loop inside recvPacket.
C15_Step ==
  /\ cpc' # cpc => UNCHANGED <<total_ticks, status, rx, line, lpc>>
  /\ <<total_ticks, status>>' # <<total_ticks, status>> =>
       /\ lpc \in {"recv", "addticks"}
       /\ lpc' # lpc
       /\ UNCHANGED callerVars

C15_FireAndForget == [][C15_Step]_vars

\* A command has written its opcode while a decoded status is held and
\* unread bytes wait on the link.
C15_Witness ==
  /\ \E t \in Callers : cpc[t] = "release"
  /\ status # NoStatus
  /\ rx # <<>>

\* --------------------------------------------------------------------- C16
\* A readTicks / a fridgeStatus call returns in this step.
ReadTicksStep == nreads' = nreads + 1 /\ ret'.op = "readTicks"
FridgeStatusStep == nreads' = nreads + 1 /\ ret'.op = "fridgeStatus"

\* C16 as stated: whenever a caller reads total_ticks, the value already
\* counts the ticks of every packet accepted so far, the one held as status
\* included.
C16_NoTornRead ==
  [][ReadTicksStep => ret'.val = Sum(accepted)]_vars

\* C16: a caller reading total_ticks gets the ticks of every packet
\* accepted so far, the one held as status included, unless the loop stands
\* between storing that packet and adding its ticks; there the caller gets
\* the total without the ticks of the packet status already shows.
C16_TornOnlyInsideRecvPacket ==
  [][ReadTicksStep =>
       ret'.val = IF lpc = "addticks"
                    THEN Sum(accepted) - status.ticks
                    ELSE Sum(accepted)]_vars

\* A caller has read a total that counts the packet held as status.
C16_Witness ==
  /\ ret.op = "readTicks"
  /\ status # NoStatus
  /\ ret.val > 0
  /\ ret.val = Sum(accepted)

\* --------------------------------------------------------------------- C17
\* The device frames readline hands over in two lines, and their pieces.
SplitFrames == {f \in DeviceFrames : FirstLF(f) \notin {0, Len(f)}}
IsPiece(l) == \E f \in SplitFrames : l = ReadLine(f) \/ l = AfterLine(f)

\* C17: a frame that reaches the loop as more than one line is discarded
\* whole: recvPacket, given one of its pieces, leaves total_ticks and status
\* unchanged and the loop goes on to its next iteration.
C17_SplitFrameDiscarded ==
  [][(RecvStep /\ IsPiece(line')) =>
       (lpc' = "while" /\ UNCHANGED <<total_ticks, status>>)]_vars

\* --------------------------------------------------------------------- C18
\* C18: the lock is held only while a write call is executing: a command
\* call that ends at its write, because the write raised, leaves the lock
\* free for the calls that follow.
C18_LockReleasedOnWriteError ==
  [][\A t \in Callers :
       (cpc[t] = "write" /\ cpc'[t] = "idle") => ~locked']_vars

\* --------------------------------------------------------------------- C19
\* C19: the flag is never cleared, and once it is set the loop reads at
\* most one more line: a loop that is not already past the flag test
\* (waiting in select or about to read) never gets there again, the loop
\* past the test reads once and then only finishes that recvPacket; so
\* status changes only in that one read and total_ticks only in the
\* addition that completes a recvPacket.
C19_Step ==
  QUIT =>
    /\ QUIT'
    /\ lpc \in {"new", "while", "addticks", "done", "dead"}
         => lpc' \notin {"select", "recv"} /\ status' = status
    /\ lpc \in {"new", "while", "done", "dead", "select"}
         => total_ticks' = total_ticks /\ status' = status
    /\ lpc = "select" => lpc' \in {"select", "recv", "while"}
    /\ lpc = "recv" => lpc' \in {"recv", "addticks", "while", "dead"}
                       /\ total_ticks' = total_ticks
    /\ lpc = "addticks" => lpc' \in {"addticks", "while"}

C19_AtMostOneReadAfterStop == [][C19_Step]_vars

\* The flag is set while the loop, past the flag test, is about to read
\* the first of two lines that wait on the link.
C19_Witness ==
  /\ QUIT
  /\ lpc = "recv"
  /\ FirstLF(rx) # 0
  /\ AfterLine(rx) # <<>>

\* --------------------------------------------------------------------- C20
\* C20: status is empty after construction and is replaced only when
\* recvPacket accepts a line, by a packet carrying that line's fridge byte;
\* a fridgeStatus call returns the fridge field of the status held, fails
\* with an error while status is empty, and either way leaves the
\* controller as it was.
C20_Step ==
  /\ status' # status =>
       /\ lpc = "recv" /\ lpc' = "addticks"
       /\ status'.fridge = line'[4]
  /\ FridgeStatusStep =>
       /\ ret'.err <=> status = NoStatus
       /\ status # NoStatus => ret'.val = status.fridge
       /\ UNCHANGED <<callerVars, loopVars, devVars>>

C20_FridgeStatus == status = NoStatus /\ [][C20_Step]_vars

\* fridgeStatus has been called on a controller that never accepted a
\* frame, and has failed.
C20_Witness == ret.op = "fridgeStatus" /\ ret.err /\ status = NoStatus

TypeOK ==
  /\ QUIT \in BOOLEAN
  /\ locked \in BOOLEAN
  /\ total_ticks \in Nat
  /\ lpc \in {"new", "while", "select", "recv", "addticks", "done", "dead"}
  /\ \A t \in Callers : cpc[t] \in {"idle", "acquire", "write", "release"}
  /\ nreads \in Nat
  /\ ret.op \in {"none", "readTicks", "fridgeStatus"}
  /\ sim.fridge \in {0, 1} /\ sim.valve \in {0, 1}
  /\ Len(tval) <= 1
====
